---- MODULE Spec2Model ----
(***************************************************************************)
(* Transform-and-load engine of the NS rail-traffic ETL pipeline:          *)
(*   src/src/pipeline.py                 ETLPipeline: run, _extract,       *)
(*                                       _transform, _load, _save_raw_data *)
(*   src/src/transformation/cleaners.py  DisruptionCleaner                 *)
(* The relational store (storage/database.py) is not part of the sources;  *)
(* its two tables are modelled from the specification: both declare        *)
(* disruption_id UNIQUE and writes become durable at conn.commit().        *)
(***************************************************************************)
EXTENDS Integers, Sequences, FiniteSets, TLC

\* ------------------------------------------------------------------ bounds
MaxBatch == 2          \* longest fetched batch
MaxRuns == 2           \* runs started in one behaviour
MaxCompanions == 1     \* records that follow the record under study in a batch
TicksPerSecond == 2    \* clock resolution: ticks per whole second

\* ------------------------------------------------------------------ values
Null == "<null>"       \* Python None / pandas NaN / SQL NULL in a text column
Absent == "<absent>"   \* the mapping has no such field
ListId == "<list>"     \* an id that is a JSON list: truthy, not NA, not bindable
NumType == "<number>"  \* a type that is a JSON number, not a string
NumCode == "<numcode>" \* a station code that is a JSON number, not a string
NullNum == {}          \* a missing number or instant
Some(n) == {n}         \* a present number or instant
Val(s) == CHOOSE n \in s : TRUE

HoursAhead == 2        \* cleaners.py:105  now + Timedelta(hours=2)
Ticks(minutes) == minutes * 60 * TicksPerSecond

\* ---------------------------------------------------------- station shapes
\* The station list a record carries under section['stations'] or under
\* timespans[*]['situation']['stations']:
\*   none    the field (or the 'stations' key) is not there
\*   list    a list of station mappings that carry the codes `codes`
\*   null    the 'stations' key is there with the value None
\*   broken  iterating fails (a number where the list should be, or a mapping
\*           with an unhashable code) after the codes `codes` were collected
NoStations == [shape |-> "none", codes |-> {}]
StationList(codes) == [shape |-> "list", codes |-> codes]
NullStations == [shape |-> "null", codes |-> {}]
BrokenStations(codes) == [shape |-> "broken", codes |-> codes]

\* ------------------------------------------------------- raw record universe
\* Payload versions 1 and 2 differ in every canonical column, so that an
\* overwrite of any single column is observable; version 3 carries a numeric
\* type.
Payload(ver) ==
  CASE ver = 1 ->
         [type |-> "Verstoring", title |-> " Storing ASD UTR ",
          description |-> "sein storing", start |-> "T+0", end |-> "T+90m",
          section |-> NoStations, timespans |-> StationList({"ASD", "UTR"})]
    [] ver = 2 ->
         [type |-> "werkzaamheden", title |-> "Werk",
          description |-> "onderhoud spoor", start |-> "T+10m", end |-> "T+300m",
          section |-> StationList({"8400058"}), timespans |-> NoStations]
    [] OTHER ->
         [type |-> NumType, title |-> "Werk",
          description |-> "seinstoring", start |-> "T+10m", end |-> "T+90m",
          section |-> NoStations, timespans |-> NoStations]

Rec(id, ver) ==
  LET p == Payload(ver) IN
  [id |-> id, type |-> p.type, title |-> p.title, description |-> p.description,
   start |-> p.start, end |-> p.end, section |-> p.section,
   timespans |-> p.timespans]

\* ids a feed record may carry: a usable key, the empty string, JSON null,
\* no id field at all, or a non-scalar value
Records ==
  {Rec("k1", 1), Rec("k1", 2), Rec("k2", 3)}
    \cup {Rec(id, 1) : id \in {"", Null, Absent, ListId}}

RECURSIVE SeqsUpTo(_, _)
SeqsUpTo(S, n) ==
  IF n = 0 THEN {<<>>}
  ELSE LET shorter == SeqsUpTo(S, n - 1) IN
       shorter \cup {Append(s, x) : s \in {t \in shorter : Len(t) = n - 1}, x \in S}

Batches == SeqsUpTo(Records, MaxBatch)

\* A wider universe for the cleaner alone: one record under study, followed
\* by up to MaxCompanions records of the feed above. The companions decide
\* which columns the frame has and what they hold.
Feed(type, title, start, end, section, timespans) ==
  [id |-> "k1", type |-> type, title |-> title, description |-> "sein storing",
   start |-> start, end |-> end, section |-> section, timespans |-> timespans]

\* start and end texts: 60, 100, 120, 240 and 300 minutes, an end before the
\* start, no end field, an unparsable end after a late start, no start field
Spans ==
  {<<"T+0", "T+60m">>, <<"T+0", "T+100m">>, <<"T+0", "T+120m">>,
   <<"T+0", "T+240m">>, <<"T+0", "T+300m">>, <<"T+300m", "T+100m">>,
   <<"T+0", Absent>>, <<"T+300m", "onbekend">>, <<Absent, "T+100m">>}

SeverityRecords ==
  {Feed(t, "Geen treinen", sp[1], sp[2], NoStations, NoStations) :
     t \in {"Verstoring", "werkzaamheden", "Calamiteit", "Cancelled", "Foo"},
     sp \in Spans}

TypeRecords ==
  {Feed(t, "Geen treinen", "T+0", "T+100m", NoStations, NoStations) :
     t \in {"storing", NumType, Null, Absent}}

StationRecords ==
  {Feed("storing", title, "T+0", "T+100m", section, timespans) :
     title \in {"Storing tussen ASD en UTR", "Geen treinen"},
     section \in {NoStations, StationList({"8400058"}), NullStations,
                  BrokenStations({}), BrokenStations({"8400058"}),
                  StationList({NumCode})},
     timespans \in {NoStations, StationList({"ASD", "UTR"}), NullStations,
                    StationList({"UTR", NumCode})}}

CleanRecords == SeverityRecords \cup TypeRecords \cup StationRecords

Companions == {Rec("k1", 2), Rec("k2", 3), Rec(Null, 1)}

CleanBatches ==
  {<<r>> \o cs : r \in CleanRecords, cs \in SeqsUpTo(Companions, MaxCompanions)}

\* ---------------------------------------------------------------- cleaner
\* str.lower() over the labels of the universe
Lower(s) ==
  CASE s = "Verstoring" -> "verstoring"
    [] s = "Calamiteit" -> "calamiteit"
    [] s = "Cancelled" -> "cancelled"
    [] s = "Foo" -> "foo"
    [] OTHER -> s

\* self.type_mapping; Null stands for "not in the dict" (Series.map gives NaN)
type_mapping(s) ==
  CASE s = "verstoring" -> "disruption"
    [] s = "werkzaamheden" -> "maintenance"
    [] s = "calamiteit" -> "calamity"
    [] s = "storing" -> "disruption"
    [] OTHER -> Null

IsNA(v) == v \in {Null, Absent}

\* df['type'].str: the accessor raises AttributeError unless the column holds
\* strings; a column of numbers (with or without NaN) is no object column
StrAccessorRaises(batch, f) ==
  /\ \E j \in 1..Len(batch) : batch[j][f] = NumType
  /\ \A j \in 1..Len(batch) : batch[j][f] = NumType \/ IsNA(batch[j][f])

\* df['type'].str.lower(), then .map(type_mapping).fillna(df['type']); a
\* non-string cell of an object column comes out of .str.lower() as NaN
NormalizeType(t) ==
  IF IsNA(t) \/ t = NumType THEN Null
  ELSE LET l == Lower(t) IN
       IF type_mapping(l) = Null THEN l ELSE type_mapping(l)

\* str.strip() and str.len() over the titles of the universe
Strip(s) ==
  CASE s = " Storing ASD UTR " -> "Storing ASD UTR"
    [] OTHER -> s

StrLen(s) ==
  CASE s = "Storing ASD UTR" -> 15
    [] s = " Storing ASD UTR " -> 17
    [] s = "Storing tussen ASD en UTR" -> 25
    [] s = "Geen treinen" -> 12
    [] s = "Werk" -> 4
    [] OTHER -> 0

\* df['title'].str.strip(); titles shorter than 5 become None
NormalizeTitle(t) ==
  IF IsNA(t) THEN Null
  ELSE IF StrLen(Strip(t)) < 5 THEN Null ELSE Strip(t)

\* pd.to_datetime(..., errors='coerce', utc=True): text to an instant in ticks
ParseTime(s) ==
  CASE s = "T+0" -> Some(0)
    [] s = "T+10m" -> Some(Ticks(10))
    [] s = "T+60m" -> Some(Ticks(60))
    [] s = "T+90m" -> Some(Ticks(90))
    [] s = "T+100m" -> Some(Ticks(100))
    [] s = "T+120m" -> Some(Ticks(120))
    [] s = "T+240m" -> Some(Ticks(240))
    [] s = "T+300m" -> Some(Ticks(300))
    [] OTHER -> NullNum

HasCol(batch, f) == \E i \in 1..Len(batch) : batch[i][f] # Absent

\* _process_timestamps on one record, given which columns the frame has
StartTime(batch, r) ==
  IF HasCol(batch, "start") THEN ParseTime(r.start) ELSE NullNum

IsOngoing(batch, r) == HasCol(batch, "end") /\ ParseTime(r.end) = NullNum

EndTime(batch, r, now) ==
  IF ~HasCol(batch, "end") THEN NullNum
  ELSE IF ParseTime(r.end) = NullNum THEN Some(now + Ticks(60 * HoursAhead))
  ELSE ParseTime(r.end)

\* DurationMinutes without the line that nulls negative values
DurationMinutesSigned(batch, r, now) ==
  LET s == StartTime(batch, r)
      e == EndTime(batch, r, now) IN
  IF ~(HasCol(batch, "start") /\ HasCol(batch, "end")) THEN NullNum
  ELSE IF s = NullNum \/ e = NullNum THEN NullNum
  ELSE Some(Val(e) - Val(s))

\* duration_minutes, held exactly in ticks (1 minute = Ticks(1))
DurationMinutes(batch, r, now) ==
  LET s == StartTime(batch, r)
      e == EndTime(batch, r, now) IN
  IF ~(HasCol(batch, "start") /\ HasCol(batch, "end")) THEN NullNum
  ELSE IF s = NullNum \/ e = NullNum THEN NullNum
  ELSE IF Val(e) - Val(s) < 0 THEN NullNum
  ELSE Some(Val(e) - Val(s))

\* 'cancel' in str(type).lower(), over the labels of the universe
ContainsCancel(t) == t \in {"cancellation", "cancelled"}

\* CalculateImpactLevel with both maintenance and disruption thresholds read
\* as "at least"
CalculateImpactLevelAtLeast(type, duration) ==
  LET d == IF duration = NullNum THEN 0 ELSE Val(duration) IN
  IF type = "calamity" THEN 5
  ELSE IF ContainsCancel(Lower(type)) THEN 5
  ELSE IF type = "maintenance" THEN (IF d >= Ticks(240) THEN 4 ELSE 3)
  ELSE IF type = "disruption"
       THEN (IF d >= Ticks(120) THEN 4 ELSE IF d >= Ticks(60) THEN 3 ELSE 2)
  ELSE 2

\* _calculate_impact_level
CalculateImpactLevel(type, duration) ==
  LET d == IF duration = NullNum THEN 0 ELSE Val(duration) IN
  IF type = "calamity" THEN 5
  ELSE IF ContainsCancel(Lower(type)) THEN 5
  ELSE IF type = "maintenance" THEN (IF d > Ticks(240) THEN 4 ELSE 3)
  ELSE IF type = "disruption"
       THEN (IF d > Ticks(120) THEN 4 ELSE IF d > Ticks(60) THEN 3 ELSE 2)
  ELSE 2

Clip(n, lo, hi) == IF n < lo THEN lo ELSE IF n > hi THEN hi ELSE n

\* re.findall(r'\b[A-Z]{2,5}\b', title) over the titles of the universe
TitleTokens(t) ==
  CASE t = "Storing ASD UTR" -> {"ASD", "UTR"}
    [] t = "Storing tussen ASD en UTR" -> {"ASD", "UTR"}
    [] OTHER -> {}

\* method 1: `'stations' in section and section['stations']`, then the loop
\* over the list; None is falsy and skips the loop
SectionCodes(section) ==
  [codes |-> IF section.shape \in {"list", "broken"} THEN section.codes ELSE {},
   raised |-> section.shape = "broken"]

\* method 2: `'stations' in situation`, then the loop over the list with no
\* test of its value; iterating None raises TypeError
TimespanCodes(timespans) ==
  [codes |-> IF timespans.shape \in {"list", "broken"} THEN timespans.codes ELSE {},
   raised |-> timespans.shape \in {"null", "broken"}]

\* StationSet that stops at the first method that found a code
StationSetFirstWins(r, title) ==
  LET m1 == SectionCodes(r.section)
      m2 == TimespanCodes(r.timespans) IN
  IF m1.raised \/ m1.codes # {} THEN m1.codes
  ELSE IF m2.raised \/ m2.codes # {} THEN m2.codes
  ELSE IF title # Null THEN TitleTokens(title)
  ELSE {}

\* _extract_stations, the try block of one record: methods 1 and 2 both add
\* to the same set and the title is scanned only when that set is still
\* empty; an exception leaves the block with the codes added so far
StationSet(r, title) ==
  LET m1 == SectionCodes(r.section)
      m2 == TimespanCodes(r.timespans) IN
  IF m1.raised THEN m1.codes
  ELSE IF m2.raised THEN m1.codes \cup m2.codes
  ELSE IF m1.codes \cup m2.codes = {} /\ title # Null THEN TitleTokens(title)
  ELSE m1.codes \cup m2.codes

\* ','.join(...) runs after the try block and raises TypeError on a code that
\* is not a string
JoinRaises(S) == NumCode \in S

\* ','.join(sorted(stations)) if stations else None: the codes in ascending
\* order; the empty sequence stands for None
Before(a, b) ==
  \/ a = "8400058" /\ b # "8400058"
  \/ a = "ASD" /\ b = "UTR"

RECURSIVE SortedJoin(_)
SortedJoin(S) ==
  IF S = {} THEN <<>>
  ELSE LET first == CHOOSE a \in S : \A b \in S \ {a} : Before(a, b) IN
       <<first>> \o SortedJoin(S \ {first})

\* strftime('%Y-%m-%d %H:%M:%S'): an instant cut to whole seconds
FormatTime(t) == IF t = NullNum THEN NullNum ELSE Some(Val(t) \div TicksPerSecond)


\* CanonicalRow with level 0 for a row of unknown duration and without the
\* clip of _validate_and_clean
CanonicalRowUnclipped(batch, r, now) ==
  LET type == IF HasCol(batch, "type") THEN NormalizeType(r.type) ELSE Null
      title == IF HasCol(batch, "title") THEN NormalizeTitle(r.title) ELSE Null
      duration == DurationMinutes(batch, r, now) IN
  [disruption_id |-> IF IsNA(r.id) THEN Null ELSE r.id,
   type |-> type,
   title |-> title,
   description |-> IF IsNA(r.description) THEN Null ELSE r.description,
   start_time |-> StartTime(batch, r),
   end_time |-> EndTime(batch, r, now),
   duration_minutes |-> duration,
   impact_level |-> IF duration = NullNum THEN 0
                    ELSE CalculateImpactLevel(type, duration),
   affected_stations |-> SortedJoin(StationSet(r, title)),
   is_resolved |-> 0,
   created_at |-> Some(now),
   updated_at |-> Some(now)]

\* DisruptionCleaner.clean on a non-empty list of mappings read at time `now`:
\* hasId says whether the frame has a disruption_id column ('id' renamed),
\* rows are the canonical rows in input order, removed is the number of rows
\* _validate_and_clean dropped for an NA disruption_id
CanonicalRow(batch, r, now) ==
  LET type == IF HasCol(batch, "type") THEN NormalizeType(r.type) ELSE Null
      title == IF HasCol(batch, "title") THEN NormalizeTitle(r.title) ELSE Null
      duration == DurationMinutes(batch, r, now) IN
  [disruption_id |-> IF IsNA(r.id) THEN Null ELSE r.id,
   type |-> type,
   title |-> title,
   description |-> IF IsNA(r.description) THEN Null ELSE r.description,
   start_time |-> StartTime(batch, r),
   end_time |-> EndTime(batch, r, now),
   duration_minutes |-> duration,
   impact_level |-> Clip(CalculateImpactLevel(type, duration), 1, 5),
   affected_stations |-> SortedJoin(StationSet(r, title)),
   is_resolved |-> 0,
   created_at |-> Some(now),
   updated_at |-> Some(now)]

\* KeepRow without the notna filter
KeepRowAll(batch, r) == TRUE

\* df[df['disruption_id'].notna()], applied only when the column exists
KeepRow(batch, r) == HasCol(batch, "id") => ~IsNA(r.id)

Clean(batch, now) ==
  LET kept == SelectSeq(batch, LAMBDA r : KeepRow(batch, r)) IN
  [hasId |-> HasCol(batch, "id"),
   rows |-> [j \in 1..Len(kept) |-> CanonicalRow(batch, kept[j], now)],
   removed |-> Len(batch) - Len(kept)]

EmptyFrame == [hasId |-> FALSE, rows |-> <<>>, removed |-> 0]   \* pd.DataFrame()

\* ------------------------------------------------------------------ store
\* The declared schema: disruption_id is UNIQUE in raw_disruptions and in
\* disruptions, so a second row with a stored key is a constraint conflict.
UniqueConflict(table, id) ==
  id # Null /\ \E j \in 1..Len(table) : table[j].disruption_id = id

\* sqlite3 binds None, int, float, str and bytes; anything else raises
Bindable(v) == v # ListId

\* `if not disruption_id`: None and the empty string are falsy
Falsy(id) == id \in {Null, ""}

\* item.get('id')
GetId(item) == IF item.id = Absent THEN Null ELSE item.id

\* json.dumps(item, ensure_ascii=False): the verbatim payload (the text is
\* one-to-one with the mapping, which stands for it)
JsonDumps(item) == item

EmptyDb == [raw |-> <<>>, norm |-> <<>>]
ZeroCounts ==
  [inserted |-> 0, skipped |-> 0, rawWarned |-> 0,
   cInserted |-> 0, updated |-> 0, cWarned |-> 0]

\* SaveRawItem with a plain INSERT into a table without the conflict check:
\* every keyed item is appended
SaveRawItemAlwaysInsert(table, n, item) ==
  LET id == GetId(item) IN
  IF Falsy(id) THEN [table |-> table, n |-> n]
  ELSE IF ~Bindable(id)
  THEN [table |-> table, n |-> [n EXCEPT !.rawWarned = @ + 1]]
  ELSE [table |-> Append(table, [disruption_id |-> id, raw_json |-> JsonDumps(item)]),
        n |-> [n EXCEPT !.inserted = @ + 1]]

\* SaveRawItem with INSERT OR REPLACE: a stored key gets the new payload
SaveRawItemReplace(table, n, item) ==
  LET id == GetId(item) IN
  IF Falsy(id) THEN [table |-> table, n |-> n]
  ELSE IF ~Bindable(id)
  THEN [table |-> table, n |-> [n EXCEPT !.rawWarned = @ + 1]]
  ELSE IF UniqueConflict(table, id)
  THEN [table |-> [j \in 1..Len(table) |->
                     IF table[j].disruption_id = id
                     THEN [table[j] EXCEPT !.raw_json = JsonDumps(item)]
                     ELSE table[j]],
        n |-> [n EXCEPT !.skipped = @ + 1]]
  ELSE [table |-> Append(table, [disruption_id |-> id, raw_json |-> JsonDumps(item)]),
        n |-> [n EXCEPT !.inserted = @ + 1]]

\* SaveRawItem with the test of the id inverted (`if disruption_id: continue`)
SaveRawItemInverted(table, n, item) ==
  LET id == GetId(item) IN
  IF ~Falsy(id) THEN [table |-> table, n |-> n]
  ELSE IF UniqueConflict(table, id)
  THEN [table |-> table, n |-> [n EXCEPT !.skipped = @ + 1]]
  ELSE [table |-> Append(table, [disruption_id |-> id, raw_json |-> JsonDumps(item)]),
        n |-> [n EXCEPT !.inserted = @ + 1]]

\* one pass of the loop body of _save_raw_data on `item`:
\* the new raw table and counters
SaveRawItem(table, n, item) ==
  LET id == GetId(item) IN
  IF Falsy(id) THEN [table |-> table, n |-> n]
  ELSE IF ~Bindable(id)
  THEN [table |-> table, n |-> [n EXCEPT !.rawWarned = @ + 1]]
  ELSE IF UniqueConflict(table, id)                       \* OR IGNORE: rowcount 0
  THEN [table |-> table, n |-> [n EXCEPT !.skipped = @ + 1]]
  ELSE [table |-> Append(table, [disruption_id |-> id, raw_json |-> JsonDumps(item)]),
        n |-> [n EXCEPT !.inserted = @ + 1]]

\* Exists whose SELECT never finds the row
ExistsNever(table, id) == FALSE

\* SELECT id FROM disruptions WHERE disruption_id = ?   (fetchone)
Exists(table, id) ==
  id # Null /\ \E j \in 1..Len(table) : table[j].disruption_id = id

\* UpdateRow that leaves updated_at out of the SET list
UpdateRowKeepsUpdatedAt(old, row) ==
  [old EXCEPT !.type = row.type,
              !.title = row.title,
              !.description = row.description,
              !.start_time = FormatTime(row.start_time),
              !.end_time = FormatTime(row.end_time),
              !.duration_minutes = row.duration_minutes,
              !.impact_level = row.impact_level,
              !.affected_stations = row.affected_stations]

\* UpdateRow that also sets created_at, as a full-row replace would
UpdateRowSetsCreatedAt(old, row) ==
  [old EXCEPT !.type = row.type,
              !.title = row.title,
              !.description = row.description,
              !.start_time = FormatTime(row.start_time),
              !.end_time = FormatTime(row.end_time),
              !.duration_minutes = row.duration_minutes,
              !.impact_level = row.impact_level,
              !.affected_stations = row.affected_stations,
              !.created_at = FormatTime(row.created_at),
              !.updated_at = FormatTime(row.updated_at)]

\* UPDATE disruptions SET ... WHERE disruption_id = ?
UpdateRow(old, row) ==
  [old EXCEPT !.type = row.type,
              !.title = row.title,
              !.description = row.description,
              !.start_time = FormatTime(row.start_time),
              !.end_time = FormatTime(row.end_time),
              !.duration_minutes = row.duration_minutes,
              !.impact_level = row.impact_level,
              !.affected_stations = row.affected_stations,
              !.updated_at = FormatTime(row.updated_at)]

\* INSERT INTO disruptions (...) VALUES (...)
InsertRow(row) ==
  [disruption_id |-> row.disruption_id,
   type |-> row.type,
   title |-> row.title,
   description |-> row.description,
   start_time |-> FormatTime(row.start_time),
   end_time |-> FormatTime(row.end_time),
   duration_minutes |-> row.duration_minutes,
   impact_level |-> row.impact_level,
   affected_stations |-> row.affected_stations,
   is_resolved |-> row.is_resolved,
   created_at |-> FormatTime(row.created_at),
   updated_at |-> FormatTime(row.updated_at)]

\* one pass of the loop body of _save_cleaned_data on `row` (the frame has a
\* disruption_id column): the new normalized table and counters
SaveCleanedRow(table, n, row) ==
  LET id == row.disruption_id IN
  IF ~Bindable(id)
  THEN [table |-> table, n |-> [n EXCEPT !.cWarned = @ + 1]]
  ELSE IF Exists(table, id)
  THEN [table |-> [j \in 1..Len(table) |->
                     IF table[j].disruption_id = id
                     THEN UpdateRow(table[j], row) ELSE table[j]],
        n |-> [n EXCEPT !.updated = @ + 1]]
  ELSE IF UniqueConflict(table, id)                       \* IntegrityError
  THEN [table |-> table, n |-> [n EXCEPT !.cWarned = @ + 1]]
  ELSE [table |-> Append(table, InsertRow(row)),
        n |-> [n EXCEPT !.cInserted = @ + 1]]


\* the raw loop of _save_raw_data from item j on
RECURSIVE RawLoop(_, _, _, _)
RawLoop(table, n, batch, j) ==
  IF j > Len(batch) THEN [table |-> table, n |-> n]
  ELSE LET r == SaveRawItem(table, n, batch[j]) IN
       RawLoop(r.table, r.n, batch, j + 1)

\* the upsert loop of _save_cleaned_data from row j on
RECURSIVE CleanedLoop(_, _, _, _)
CleanedLoop(table, n, rows, j) ==
  IF j > Len(rows) THEN [table |-> table, n |-> n]
  ELSE LET r == SaveCleanedRow(table, n, rows[j]) IN
       CleanedLoop(r.table, r.n, rows, j + 1)

\* ------------------------------------------------------------------ state
VARIABLES
  pc,        \* position of ETLPipeline.run: idle, transform, save_raw,
             \*   save_cleaned, done
  raw_data,  \* what _extract returned: a list of mappings ([] after a
             \*   failed fetch)
  cleaned,   \* the frame _transform returned
  threw,     \* the cleaner raised inside _transform in this run
  i,         \* index of the next item of the running save loop
  db,        \* committed tables: [raw, norm], each a sequence of rows
  conn,      \* the tables as the open connection sees them (uncommitted writes)
  counts,    \* the counters and warnings of the two save loops of this run
  outcome,   \* how the last run ended: none, returned, ok, raised, crashed
  clock,     \* wall clock in ticks
  runs,      \* number of runs started so far
  now,       \* the clock value the cleaner stamped in this run
  kind,      \* fresh, rerun (same input after a completed run) or
             \*   recovery (same input after a crashed run)
  snap,      \* committed tables when the run (for a recovery: the crashed
             \*   run before it) started
  fetch,     \* NSAPIClient.fetch_disruptions in progress: attempts made,
             \*   seconds slept, how it ended
  writers,   \* the upsert loops of ingestion processes that share the store
  exclusive  \* at most one ingestion process runs at a time

vars == <<pc, raw_data, cleaned, threw, i, db, conn, counts, outcome, clock,
          runs, now, kind, snap, fetch, writers, exclusive>>

\* no fetch in progress, no further ingestion process
NoFetch == [attempts |-> 0, max_retries |-> 0, slept |-> 0, last |-> "none",
            status |-> "none"]
NoWriters == <<>>

\* `not raw_data`
NotRawData(f) == f = <<>>

Init ==
  /\ pc = "idle"
  /\ raw_data = <<>>
  /\ cleaned = EmptyFrame
  /\ threw = FALSE
  /\ i = 1
  /\ db = EmptyDb
  /\ conn = EmptyDb
  /\ counts = ZeroCounts
  /\ outcome = "none"
  /\ clock \in 0..(TicksPerSecond - 1)   \* the first run starts anywhere in a second
  /\ runs = 0
  /\ now = 0
  /\ kind = "fresh"
  /\ snap = EmptyDb
  /\ fetch = NoFetch
  /\ writers = NoWriters
  /\ exclusive = TRUE

\* run, step 1: _extract, then `if not raw_data: return`. A run starts at
\* least one clock tick after the run before it.
StartRun(f, k, s) ==
  /\ runs < MaxRuns
  /\ runs' = runs + 1
  /\ clock' = clock + 1
  /\ raw_data' = f
  /\ kind' = k
  /\ snap' = s
  /\ cleaned' = EmptyFrame
  /\ threw' = FALSE
  /\ i' = 1
  /\ counts' = ZeroCounts
  /\ now' = 0
  /\ IF NotRawData(f)
     THEN pc' = "done" /\ outcome' = "returned"
     ELSE pc' = "transform" /\ outcome' = "none"
  /\ UNCHANGED <<db, conn, fetch, writers, exclusive>>

Extract ==
  /\ pc = "idle"
  /\ \E f \in Batches : StartRun(f, "fresh", db)

\* the next run fetches the same payload again
ExtractSame ==
  /\ pc = "done"
  /\ kind = "fresh"
  /\ outcome \in {"ok", "crashed"}
  /\ StartRun(raw_data, IF outcome = "ok" THEN "rerun" ELSE "recovery",
              IF outcome = "ok" THEN db ELSE snap)

\* clean raises on this batch: step 2 reads df['type'].str, step 5 joins the
\* station codes of every record outside its try block
CleanRaises(batch) ==
  \/ HasCol(batch, "type") /\ StrAccessorRaises(batch, "type")
  \/ \E j \in 1..Len(batch) :
       JoinRaises(StationSet(batch[j],
                             IF HasCol(batch, "title")
                             THEN NormalizeTitle(batch[j].title) ELSE Null))

\* _transform: an exception of the cleaner is logged and an empty frame returned
TransformResult(batch, t) ==
  IF CleanRaises(batch) THEN EmptyFrame ELSE Clean(batch, t)

\* IsEmpty when run does not test the frame
IsEmptyNever(frame) == FALSE

\* `if cleaned_data.empty: return`
IsEmpty(frame) == frame.rows = <<>>

\* run, step 2: _transform, then `if cleaned_data.empty: return`
Transform ==
  /\ pc = "transform"
  /\ now' = clock
  /\ threw' = CleanRaises(raw_data)
  /\ cleaned' = TransformResult(raw_data, clock)
  /\ IF IsEmpty(cleaned')
     THEN pc' = "done" /\ outcome' = "returned"
     ELSE pc' = "save_raw" /\ outcome' = outcome
  /\ i' = 1
  /\ UNCHANGED <<raw_data, db, conn, counts, clock, runs, kind, snap,
               fetch, writers, exclusive>>

\* _save_raw_data: one iteration of the loop
SaveRaw ==
  /\ pc = "save_raw"
  /\ i <= Len(raw_data)
  /\ LET r == SaveRawItem(conn.raw, counts, raw_data[i]) IN
       /\ conn' = [conn EXCEPT !.raw = r.table]
       /\ counts' = r.n
  /\ i' = i + 1
  /\ UNCHANGED <<pc, raw_data, cleaned, threw, db, outcome, clock, runs, now, kind, snap,
               fetch, writers, exclusive>>

\* _save_raw_data: conn.commit() after the loop; _load goes on to the frame
CommitRaw ==
  /\ pc = "save_raw"
  /\ i > Len(raw_data)
  /\ db' = [db EXCEPT !.raw = conn.raw]
  /\ pc' = "save_cleaned"
  /\ i' = 1
  /\ UNCHANGED <<raw_data, cleaned, threw, conn, counts, outcome, clock, runs, now, kind, snap,
               fetch, writers, exclusive>>

\* _save_cleaned_data: one iteration of the loop. Without a disruption_id
\* column row['disruption_id'] raises KeyError, and raises it again inside
\* the except clause that logs it: the exception leaves run.
SaveCleaned ==
  /\ pc = "save_cleaned"
  /\ i <= Len(cleaned.rows)
  /\ IF cleaned.hasId
     THEN LET r == SaveCleanedRow(conn.norm, counts, cleaned.rows[i]) IN
            /\ conn' = [conn EXCEPT !.norm = r.table]
            /\ counts' = r.n
            /\ i' = i + 1
            /\ UNCHANGED <<pc, outcome>>
     ELSE /\ conn' = db
          /\ pc' = "done"
          /\ outcome' = "raised"
          /\ UNCHANGED <<counts, i>>
  /\ UNCHANGED <<raw_data, cleaned, threw, db, clock, runs, now, kind, snap,
               fetch, writers, exclusive>>

\* _save_cleaned_data: conn.commit() after the loop; _generate_report; return
CommitCleaned ==
  /\ pc = "save_cleaned"
  /\ i > Len(cleaned.rows)
  /\ db' = [db EXCEPT !.norm = conn.norm]
  /\ pc' = "done"
  /\ outcome' = "ok"
  /\ UNCHANGED <<raw_data, cleaned, threw, i, conn, counts, clock, runs, now, kind, snap,
               fetch, writers, exclusive>>

\* the process dies during _load: uncommitted writes and the run's memory
\* are lost
Crash ==
  /\ pc \in {"save_raw", "save_cleaned"}
  /\ conn' = db
  /\ pc' = "done"
  /\ outcome' = "crashed"
  /\ cleaned' = EmptyFrame
  /\ counts' = ZeroCounts
  /\ i' = 1
  /\ UNCHANGED <<raw_data, threw, db, clock, runs, now, kind, snap,
               fetch, writers, exclusive>>

\* main returns or exits: the process and its memory are gone, the committed
\* tables stay
Exit ==
  /\ pc = "done"
  /\ pc' = "idle"
  /\ raw_data' = <<>>
  /\ cleaned' = EmptyFrame
  /\ threw' = FALSE
  /\ i' = 1
  /\ counts' = ZeroCounts
  /\ outcome' = "none"
  /\ now' = 0
  /\ kind' = "fresh"
  /\ snap' = EmptyDb
  /\ conn' = db
  /\ UNCHANGED <<db, clock, runs,
               fetch, writers, exclusive>>

\* the committed tables one whole run over `batch`, cleaned at time t, leaves
\* when it starts from the committed tables `start` and nothing interrupts it
UninterruptedRun(start, batch, t) ==
  LET frame == TransformResult(batch, t) IN
  IF NotRawData(batch) \/ IsEmpty(frame) THEN start
  ELSE [raw |-> RawLoop(start.raw, ZeroCounts, batch, 1).table,
        norm |-> IF frame.hasId
                 THEN CleanedLoop(start.norm, ZeroCounts, frame.rows, 1).table
                 ELSE start.norm]

Next ==
  \/ Extract
  \/ Exit
  \/ ExtractSame
  \/ Transform
  \/ SaveRaw
  \/ CommitRaw
  \/ SaveCleaned
  \/ CommitCleaned
  \/ Crash

Spec == Init /\ [][Next]_vars

\* ------------------------------------------------- one run, wider universe
\* _extract has returned a batch of the wider universe; the run goes on
\* through _transform and _load without interruption.
CleanInit ==
  /\ pc = "transform"
  /\ raw_data \in CleanBatches
  /\ cleaned = EmptyFrame
  /\ threw = FALSE
  /\ i = 1
  /\ db = EmptyDb
  /\ conn = EmptyDb
  /\ counts = ZeroCounts
  /\ outcome = "none"
  /\ clock \in 0..TicksPerSecond
  /\ runs = 1
  /\ now = 0
  /\ kind = "fresh"
  /\ snap = EmptyDb
  /\ fetch = NoFetch
  /\ writers = NoWriters
  /\ exclusive = TRUE

CleanNext ==
  \/ Transform
  \/ SaveRaw
  \/ CommitRaw
  \/ SaveCleaned
  \/ CommitCleaned

CleanSpec == CleanInit /\ [][CleanNext]_vars

\* ------------------------------------------------------ fetch_disruptions
MaxRetries == 3        \* api_client.py:47  def fetch_disruptions(self, max_retries=3)

\* api_client.py imports requests, json, datetime, pathlib, os, dotenv and
\* azure.storage.blob, and no `time`: the name is unbound at time.sleep
TimeImported == FALSE

\* the tables a run before this one may have left
EarlierDb == {EmptyDb, UninterruptedRun(EmptyDb, <<Rec("k1", 1)>>, 0)}

\* run has called _extract, which calls fetch_disruptions(max_retries)
FetchInit ==
  /\ pc = "fetch"
  /\ \E m \in 1..MaxRetries :
       fetch = [attempts |-> 0, max_retries |-> m, slept |-> 0, last |-> "none",
                status |-> "running"]
  /\ raw_data = <<>>
  /\ cleaned = EmptyFrame
  /\ threw = FALSE
  /\ i = 1
  /\ db \in EarlierDb
  /\ conn = db
  /\ snap = db
  /\ counts = ZeroCounts
  /\ outcome = "none"
  /\ clock \in 0..(TicksPerSecond - 1)
  /\ runs = 1
  /\ now = 0
  /\ kind = "fresh"
  /\ writers = NoWriters
  /\ exclusive = TRUE

\* fetch_disruptions is left with `data` (how == "returned") or with an
\* exception (how == "raised"), which _extract turns into []; then run tests
\* `if not raw_data`
LeaveFetch(result, how, data) ==
  /\ fetch' = [fetch EXCEPT !.attempts = @ + 1, !.last = result, !.status = how]
  /\ raw_data' = IF how = "raised" THEN <<>> ELSE data
  /\ IF NotRawData(raw_data')
     THEN pc' = "done" /\ outcome' = "returned"
     ELSE pc' = "transform" /\ outcome' = "none"
  /\ UNCHANGED <<cleaned, threw, i, db, conn, counts, clock, runs, now, kind,
                 snap, writers, exclusive>>

\* the loop of fetch_disruptions is about to make attempt number
\* fetch.attempts + 1
Attempting ==
  /\ pc = "fetch"
  /\ fetch.status = "running"
  /\ fetch.attempts < fetch.max_retries

\* the request succeeds: `return data`
FetchOk ==
  /\ Attempting
  /\ \E f \in Batches : LeaveFetch("ok", "returned", f)

\* requests.exceptions.Timeout: with attempts left the handler computes
\* wait_time = 2 ** attempt and calls time.sleep(wait_time), then the loop
\* goes on; on the last attempt it returns []
FetchTimeout ==
  /\ Attempting
  /\ LET attempt == fetch.attempts + 1 IN
     IF attempt < fetch.max_retries
     THEN IF TimeImported
          THEN /\ fetch' = [fetch EXCEPT !.attempts = attempt,
                                         !.last = "timeout",
                                         !.slept = @ + 2 ^ attempt]
               /\ UNCHANGED <<pc, raw_data, cleaned, threw, i, db, conn, counts,
                              outcome, clock, runs, now, kind, snap, writers,
                              exclusive>>
          ELSE LeaveFetch("timeout", "raised", <<>>)      \* NameError
     ELSE LeaveFetch("timeout", "returned", <<>>)

\* requests.exceptions.HTTPError, or any other Exception: `return []`
FetchError ==
  /\ Attempting
  /\ \E result \in {"http", "other"} : LeaveFetch(result, "returned", <<>>)

FetchNext ==
  \/ FetchOk
  \/ FetchTimeout
  \/ FetchError
  \/ Transform
  \/ SaveRaw
  \/ CommitRaw
  \/ SaveCleaned
  \/ CommitCleaned

FetchSpec == FetchInit /\ [][FetchNext]_vars

\* ------------------------------------- ingestion processes on one store
\* Two ingestion processes have reached _save_cleaned_data, each with the
\* frame of its own batch, on connections of their own to the same store.
\* A process reads the committed table plus its own uncommitted writes; the
\* store lets one process at a time hold uncommitted writes, and a write of
\* another process waits until that one commits.
Procs == {"A", "B"}

\* batches of keyed records on which clean does not raise
WriterBatches ==
  {b \in Batches :
     /\ b # <<>>
     /\ \A j \in 1..Len(b) : ~Falsy(GetId(b[j])) /\ Bindable(GetId(b[j]))
     /\ ~CleanRaises(b)}

\* a process about to enter the loop of _save_cleaned_data over `rows`;
\* tried and lost record the keys for which it took the INSERT branch and
\* those whose INSERT raised
NewWriter(rows) ==
  [pc |-> "start", rows |-> rows, i |-> 1, found |-> FALSE, holds |-> FALSE,
   table |-> <<>>, n |-> ZeroCounts, tried |-> {}, lost |-> {}]

ConcInit ==
  /\ pc = "idle"
  /\ raw_data = <<>>
  /\ cleaned = EmptyFrame
  /\ threw = FALSE
  /\ i = 1
  /\ db = EmptyDb
  /\ conn = EmptyDb
  /\ counts = ZeroCounts
  /\ outcome = "none"
  /\ clock \in 0..(TicksPerSecond - 1)
  /\ runs = 0
  /\ now = 0
  /\ kind = "fresh"
  /\ snap = EmptyDb
  /\ fetch = NoFetch
  /\ writers \in [Procs -> {NewWriter(Clean(b, clock).rows) : b \in WriterBatches}]
  /\ exclusive \in BOOLEAN

\* the normalized table as the connection of process p sees it
View(p) == IF writers[p].holds THEN writers[p].table ELSE db.norm

\* no other process holds uncommitted writes
WriteLockFree(p) == \A q \in Procs \ {p} : ~writers[q].holds

\* lines 210-259 of the loop body, given what the SELECT returned: UPDATE
\* when it found the key, INSERT otherwise; an INSERT of a stored key raises
\* IntegrityError, which the except clause logs
WriteRow(table, n, row, found) ==
  IF found
  THEN [table |-> [j \in 1..Len(table) |->
                     IF table[j].disruption_id = row.disruption_id
                     THEN UpdateRow(table[j], row) ELSE table[j]],
        n |-> [n EXCEPT !.updated = @ + 1], raised |-> FALSE]
  ELSE IF UniqueConflict(table, row.disruption_id)
  THEN [table |-> table, n |-> [n EXCEPT !.cWarned = @ + 1], raised |-> TRUE]
  ELSE [table |-> Append(table, InsertRow(row)),
        n |-> [n EXCEPT !.cInserted = @ + 1], raised |-> FALSE]

runVars == <<pc, raw_data, cleaned, threw, i, conn, counts, outcome, clock,
             runs, now, kind, snap, fetch>>

\* a process enters _save_cleaned_data; when runs are exclusive it waits
\* until no other process is inside
WriterBegin ==
  \E p \in Procs :
    /\ writers[p].pc = "start"
    /\ exclusive => \A q \in Procs \ {p} : writers[q].pc \in {"start", "done"}
    /\ writers' = [writers EXCEPT ![p].pc = "select"]
    /\ UNCHANGED <<db, exclusive, runVars>>

\* SELECT ... WHERE disruption_id = ?; exists = cursor.fetchone()
WriterSelect ==
  \E p \in Procs :
    /\ writers[p].pc = "select"
    /\ LET w == writers[p] IN
       writers' = [writers EXCEPT
                     ![p].found = Exists(View(p), w.rows[w.i].disruption_id),
                     ![p].pc = "write"]
    /\ UNCHANGED <<db, exclusive, runVars>>

\* `if exists:` UPDATE, `else:` INSERT, on what the SELECT returned
WriterWrite ==
  \E p \in Procs :
    /\ writers[p].pc = "write"
    /\ WriteLockFree(p)
    /\ LET w == writers[p]
           row == w.rows[w.i]
           r == WriteRow(View(p), w.n, row, w.found) IN
       writers' = [writers EXCEPT
                     ![p].table = r.table,
                     ![p].holds = TRUE,
                     ![p].n = r.n,
                     ![p].tried = IF w.found THEN @ ELSE @ \cup {row.disruption_id},
                     ![p].lost = IF r.raised THEN @ \cup {row.disruption_id} ELSE @,
                     ![p].i = @ + 1,
                     ![p].pc = IF w.i = Len(w.rows) THEN "commit" ELSE "select"]
    /\ UNCHANGED <<db, exclusive, runVars>>

\* conn.commit() after the loop
WriterCommit ==
  \E p \in Procs :
    /\ writers[p].pc = "commit"
    /\ db' = [db EXCEPT !.norm = View(p)]
    /\ writers' = [writers EXCEPT ![p].holds = FALSE, ![p].pc = "done"]
    /\ UNCHANGED <<exclusive, runVars>>

ConcNext ==
  \/ WriterBegin
  \/ WriterSelect
  \/ WriterWrite
  \/ WriterCommit

ConcSpec == ConcInit /\ [][ConcNext]_vars


\* ================================================================= claims
\* a record that carries a usable business key: a non-empty scalar id
Keyed(item) == ~Falsy(GetId(item)) /\ Bindable(GetId(item))
KeyedItems(batch) == {j \in 1..Len(batch) : Keyed(batch[j])}

\* the raw loop of a run that fetched the payload of the completed run
\* before it has finished and committed
RawRerunDone ==
  /\ kind = "rerun"
  /\ pc = "save_cleaned" \/ (pc = "done" /\ outcome = "ok")

\* C1: raw-store idempotence. When the raw insert has run a second time with
\* the identical batch, the raw table has as many rows as after the first
\* run, and the second run reports no record as inserted and every keyed
\* record as skipped.
C1_RawIdempotent ==
  RawRerunDone =>
    /\ Len(db.raw) = Len(snap.raw)
    /\ db.raw = snap.raw
    /\ counts.inserted = 0
    /\ counts.skipped = Cardinality(KeyedItems(raw_data))

\* C1 witness: a second run over a batch of two keyed records has finished
\* and skipped both.
C1_Witness ==
  /\ RawRerunDone
  /\ pc = "done"
  /\ Len(raw_data) = 2
  /\ counts.skipped = 2
  /\ Len(db.raw) >= 1

\* C4: raw history is immutable. No step changes or removes a committed raw
\* row, no insert of the raw loop changes a row the connection already holds,
\* and a key never gets a second row: the payload stored under a key stays
\* the payload of the first record inserted under it.
C4_RawImmutable ==
  [][/\ \A j \in 1..Len(db.raw) :
          j <= Len(db'.raw) /\ db'.raw[j] = db.raw[j]
     /\ (pc = "save_raw" /\ outcome' # "crashed") =>
          \A j \in 1..Len(conn.raw) :
            j <= Len(conn'.raw) /\ conn'.raw[j] = conn.raw[j]
     /\ \A j, k \in 1..Len(db'.raw) :
          db'.raw[j].disruption_id = db'.raw[k].disruption_id => j = k]_vars

\* C4 witness: a run has completed whose batch carried, for a key stored by
\* an earlier run, a payload different from the stored one.
C4_Witness ==
  /\ pc = "done"
  /\ outcome = "ok"
  /\ \E j \in 1..Len(snap.raw), k \in 1..Len(raw_data) :
       /\ snap.raw[j].disruption_id = GetId(raw_data[k])
       /\ snap.raw[j].raw_json # JsonDumps(raw_data[k])
       /\ db.raw[j] = snap.raw[j]


\* rows of a frame that carry a usable business key
KeyedRows(frame) ==
  {j \in 1..Len(frame.rows) : Bindable(frame.rows[j].disruption_id)}

\* a stored row whose key the frame of this run carries
Touched(stored, frame) ==
  \E j \in KeyedRows(frame) : frame.rows[j].disruption_id = stored.disruption_id

\* a run that fetched the payload of the completed run before it has
\* completed in its turn
RerunDone == kind = "rerun" /\ pc = "done" /\ outcome = "ok"

\* the part of C2 about rows and counters
C2_Counts ==
  /\ Len(db.norm) = Len(snap.norm)
  /\ counts.cInserted = 0
  /\ counts.updated = Cardinality(KeyedRows(cleaned))

\* C2 as stated: after upsert has run a second time with the identical
\* batch, the normalized table has as many rows as before (all rows updated,
\* none inserted) and every row of the batch has an updated_at later than
\* the one the first run left.
C2_UpdatedAtAdvances ==
  RerunDone =>
    /\ C2_Counts
    /\ \A j \in 1..Len(snap.norm) :
         Touched(snap.norm[j], cleaned) =>
           Val(db.norm[j].updated_at) > Val(snap.norm[j].updated_at)

\* C2 amended: same rows and counters; every row of the batch has as
\* updated_at the second run's stamp cut to whole seconds, which is never
\* earlier than the value the first run left and is later exactly when the
\* second run was stamped in a later clock second.
C2_UpdatedAtRefreshed ==
  RerunDone =>
    /\ C2_Counts
    /\ \A j \in 1..Len(snap.norm) :
         Touched(snap.norm[j], cleaned) =>
           /\ db.norm[j].updated_at = Some(now \div TicksPerSecond)
           /\ Val(db.norm[j].updated_at) >= Val(snap.norm[j].updated_at)
           /\ (Val(db.norm[j].updated_at) > Val(snap.norm[j].updated_at))
                <=> (now \div TicksPerSecond > Val(snap.norm[j].updated_at))

\* C2 witness: a second run over the same batch has updated a row and moved
\* its updated_at to a later second.
C2_Witness ==
  /\ RerunDone
  /\ counts.updated >= 1
  /\ \E j \in 1..Len(snap.norm) :
       /\ Touched(snap.norm[j], cleaned)
       /\ Val(db.norm[j].updated_at) > Val(snap.norm[j].updated_at)

\* the upsert of row i of the frame is about to run on a usable key
UpsertStep ==
  /\ pc = "save_cleaned"
  /\ i <= Len(cleaned.rows)
  /\ cleaned.hasId
  /\ Bindable(cleaned.rows[i].disruption_id)

\* `new` is `old` with every mutable column taken from the incoming row
Overwritten(old, new, row) ==
  /\ new.type = row.type
  /\ new.title = row.title
  /\ new.description = row.description
  /\ new.start_time = FormatTime(row.start_time)
  /\ new.end_time = FormatTime(row.end_time)
  /\ new.duration_minutes = row.duration_minutes
  /\ new.impact_level = row.impact_level
  /\ new.affected_stations = row.affected_stations
  /\ new.updated_at = FormatTime(row.updated_at)
  /\ new.disruption_id = old.disruption_id
  /\ new.created_at = old.created_at

\* `new` carries all canonical columns of the incoming row
InsertedFrom(new, row) ==
  /\ new.disruption_id = row.disruption_id
  /\ new.type = row.type
  /\ new.title = row.title
  /\ new.description = row.description
  /\ new.start_time = FormatTime(row.start_time)
  /\ new.end_time = FormatTime(row.end_time)
  /\ new.duration_minutes = row.duration_minutes
  /\ new.impact_level = row.impact_level
  /\ new.affected_stations = row.affected_stations
  /\ new.is_resolved = row.is_resolved
  /\ new.created_at = FormatTime(row.created_at)
  /\ new.updated_at = FormatTime(row.updated_at)

\* C3: upsert frame condition. An upsert that finds the key overwrites the
\* nine mutable columns of the stored row with the incoming values and keeps
\* its disruption_id and created_at, touching no other row; one that does
\* not find the key appends one row with all canonical columns. No step ever
\* changes disruption_id or created_at of a committed row, so created_at of
\* a key stays the value stamped by the run that inserted it.
C3_UpsertFrame ==
  [][/\ (UpsertStep /\ outcome' # "crashed") =>
          LET row == cleaned.rows[i]
              old == conn.norm
              new == conn'.norm
              n == Len(conn.norm) IN
          IF \E j \in 1..n : old[j].disruption_id = row.disruption_id
          THEN /\ Len(new) = n
               /\ \A j \in 1..n :
                    IF old[j].disruption_id = row.disruption_id
                    THEN Overwritten(old[j], new[j], row)
                    ELSE new[j] = old[j]
          ELSE /\ Len(new) = n + 1
               /\ \A j \in 1..n : new[j] = old[j]
               /\ InsertedFrom(new[n + 1], row)
     /\ \A j \in 1..Len(db.norm) :
          /\ j <= Len(db'.norm)
          /\ db'.norm[j].disruption_id = db.norm[j].disruption_id
          /\ db'.norm[j].created_at = db.norm[j].created_at]_vars

\* C3 witness: a committed row that a later run overwrote: it carries the
\* columns of payload version 2, and an updated_at later than its created_at.
C3_Witness ==
  /\ pc = "done"
  /\ outcome = "ok"
  /\ counts.updated >= 1
  /\ \E j \in 1..Len(snap.norm) :
       /\ db.norm[j].type = "maintenance"
       /\ snap.norm[j].type = "disruption"
       /\ Val(db.norm[j].updated_at) > Val(db.norm[j].created_at)


\* a record without an identifier: the field is absent, null or empty
MissingId(item) == Falsy(GetId(item))

HasRowFor(table, id) == \E j \in 1..Len(table) : table[j].disruption_id = id

\* a run over a batch that mixes records without an identifier with keyed
\* records has ended by itself
MixedRunEnded ==
  /\ pc = "done"
  /\ outcome # "crashed"
  /\ \E j \in 1..Len(raw_data) : MissingId(raw_data[j])
  /\ \E j \in 1..Len(raw_data) : Keyed(raw_data[j])

\* C5 as stated: a run over a batch that holds a record without an identifier
\* next to keyed records does not fail, writes no row for the record without
\* identifier to either table, counts each such record in its tally of
\* skipped (raw loop) or removed (cleaner) records, and persists every keyed
\* record in both tables.
C5_MissingIdHandled ==
  MixedRunEnded =>
    /\ outcome = "ok"
    /\ \A j \in 1..Len(db.raw) :
         Falsy(db.raw[j].disruption_id) =>
           j <= Len(snap.raw) /\ db.raw[j] = snap.raw[j]
    /\ \A j \in 1..Len(db.norm) :
         Falsy(db.norm[j].disruption_id) =>
           j <= Len(snap.norm) /\ db.norm[j] = snap.norm[j]
    /\ counts.skipped + cleaned.removed
         >= Cardinality({j \in 1..Len(raw_data) : MissingId(raw_data[j])})
    /\ \A j \in KeyedItems(raw_data) :
         /\ HasRowFor(db.raw, GetId(raw_data[j]))
         /\ HasRowFor(db.norm, GetId(raw_data[j]))

Unique(table) ==
  \A j, k \in 1..Len(table) :
    table[j].disruption_id = table[k].disruption_id => j = k

C7_FailureSignalled ==
  (pc = "done" /\ threw) => outcome = "raised"

\* C8: no writes on a batch-level failure. A run whose transform stage
\* threw, or whose fetched batch was empty, ends with both tables, committed
\* and as the connection sees them, exactly as they were when it started.
C8_NoWritesOnFailure ==
  (pc = "done" /\ (threw \/ NotRawData(raw_data))) =>
    /\ db = snap
    /\ conn = snap

\* C8 witness: the transform stage threw on a batch carrying a keyed record
\* that the raw table does not hold, with rows stored by an earlier run.
C8_Witness ==
  /\ pc = "done"
  /\ threw
  /\ Len(db.raw) >= 1
  /\ \E j \in KeyedItems(raw_data) : ~HasRowFor(db.raw, GetId(raw_data[j]))

\* C9 as stated: a run in which an item failed in a save loop still ends
\* normally, and the skipped tally of the raw loop counts the failed items
\* next to the ignored duplicates.
C9_FailuresCounted ==
  (pc = "done" /\ outcome # "crashed" /\ counts.rawWarned + counts.cWarned > 0) =>
    /\ outcome = "ok"
    /\ counts.skipped =
         Cardinality({j \in 1..Len(raw_data) : ~Falsy(GetId(raw_data[j]))})
           - counts.inserted

NoStamps(row) == [row EXCEPT !.created_at = NullNum, !.updated_at = NullNum]

\* C10: crash recovery by re-entrancy. When a run crashed during the load
\* step and the next run over the same input has completed, both tables
\* hold what one uninterrupted run over that input, started from the tables
\* the crashed run found, would have left: the same raw rows and, apart from
\* created_at and updated_at, the same normalized rows, with no key twice.
C10_CrashRecovery ==
  (kind = "recovery" /\ pc = "done" /\ outcome = "ok") =>
    LET u == UninterruptedRun(snap, raw_data, now) IN
    /\ db.raw = u.raw
    /\ Len(db.norm) = Len(u.norm)
    /\ \A j \in 1..Len(db.norm) : NoStamps(db.norm[j]) = NoStamps(u.norm[j])
    /\ Unique(db.raw)
    /\ Unique(db.norm)

\* C10 witness: the recovery run found the raw rows of its batch committed
\* by the crashed run (it inserted none, and the raw table is longer than
\* before the crash) and inserted the normalized rows itself.
C10_Witness ==
  /\ kind = "recovery"
  /\ pc = "done"
  /\ outcome = "ok"
  /\ counts.inserted = 0
  /\ Len(db.raw) > Len(snap.raw)
  /\ counts.cInserted > 0

\* ------------------------------------------------------------ C12 .. C18
\* the rows the cleaner returned in this run
CleanedRows == {cleaned.rows[j] : j \in 1..Len(cleaned.rows)}

\* the minutes the severity rules compare: a missing duration counts as 0
Minutes(duration) == IF duration = NullNum THEN 0 ELSE Val(duration)

\* the type contains "cancel", whatever its case
HasCancel(type) == type \in {"cancelled", "Cancelled"}

\* the severity rules in their order; the first rule that matches decides
SeverityRules(type, duration) ==
  <<[when |-> type = "calamity", level |-> 5],
    [when |-> HasCancel(type), level |-> 5],
    [when |-> type = "maintenance" /\ Minutes(duration) > Ticks(240), level |-> 4],
    [when |-> type = "maintenance", level |-> 3],
    [when |-> type = "disruption" /\ Minutes(duration) > Ticks(120), level |-> 4],
    [when |-> type = "disruption" /\ Minutes(duration) > Ticks(60), level |-> 3],
    [when |-> TRUE, level |-> 2]>>

FirstMatch(rules) ==
  rules[CHOOSE k \in 1..Len(rules) :
          rules[k].when /\ \A m \in 1..(k - 1) : ~rules[m].when].level

\* C12: severity decision table. Every row the cleaner returns has the
\* impact_level of the first matching rule of the table, a missing duration
\* compared as 0; a calamity has 5 whatever its duration, a maintenance of
\* 300 minutes has 4 and one of 100 minutes has 3.
C12_SeverityTable ==
  \A row \in CleanedRows :
    /\ row.impact_level = FirstMatch(SeverityRules(row.type, row.duration_minutes))
    /\ row.type = "calamity" => row.impact_level = 5
    /\ (row.type = "maintenance" /\ row.duration_minutes = Some(Ticks(300)))
         => row.impact_level = 4
    /\ (row.type = "maintenance" /\ row.duration_minutes = Some(Ticks(100)))
         => row.impact_level = 3

\* C12 witness: one frame holds a maintenance of exactly 240 minutes at level
\* 3 next to a maintenance of 290 minutes at level 4.
C12_Witness ==
  /\ \E row \in CleanedRows :
       /\ row.type = "maintenance"
       /\ row.duration_minutes = Some(Ticks(240))
       /\ row.impact_level = 3
  /\ \E row \in CleanedRows :
       /\ row.type = "maintenance"
       /\ row.duration_minutes = Some(Ticks(290))
       /\ row.impact_level = 4

\* the rows of a table
Rows(table) == {table[j] : j \in 1..Len(table)}

\* C13: impact range. Every row the cleaner returned, and every row of the
\* normalized table, committed or as the connection sees it, has an
\* impact_level in 1..5, whatever the raw type and timestamps were.
C13_ImpactRange ==
  \A row \in CleanedRows \cup Rows(conn.norm) \cup Rows(db.norm) :
    row.impact_level \in 1..5

\* C13 witness: a run has committed a row of level 5 next to a row of level 2
\* whose raw type was no string.
C13_Witness ==
  /\ pc = "done"
  /\ outcome = "ok"
  /\ \E row \in Rows(db.norm) : row.impact_level = 5
  /\ \E row \in Rows(db.norm) : row.impact_level = 2 /\ row.type = Null

\* C14: duration sign. A row the cleaner returns with both start_time and
\* end_time present has duration_minutes = end_time - start_time when that
\* is not negative and a null duration_minutes when it is; a row that lacks
\* either instant has a null duration_minutes. No row of the normalized
\* table, committed or as the connection sees it, has a negative
\* duration_minutes.
C14_DurationSign ==
  /\ \A row \in CleanedRows :
       IF row.start_time # NullNum /\ row.end_time # NullNum
       THEN IF Val(row.end_time) >= Val(row.start_time)
            THEN /\ row.duration_minutes
                      = Some(Val(row.end_time) - Val(row.start_time))
                 /\ Val(row.duration_minutes) >= 0
            ELSE row.duration_minutes = NullNum
       ELSE row.duration_minutes = NullNum
  /\ \A row \in Rows(conn.norm) \cup Rows(db.norm) :
       row.duration_minutes # NullNum => Val(row.duration_minutes) >= 0

\* C14 witness: a run has committed a row whose end lies before its start,
\* with a null duration, next to a row with a duration of 80 minutes.
C14_Witness ==
  /\ pc = "done"
  /\ outcome = "ok"
  /\ \E row \in CleanedRows :
       /\ row.start_time # NullNum
       /\ row.end_time # NullNum
       /\ Val(row.end_time) < Val(row.start_time)
       /\ row.duration_minutes = NullNum
       /\ \E stored \in Rows(db.norm) :
            /\ stored.disruption_id = row.disruption_id
            /\ stored.duration_minutes = NullNum
  /\ \E stored \in Rows(db.norm) : stored.duration_minutes = Some(Ticks(80))

\* the records of the batch that the cleaner kept, in input order: row j of
\* the frame was made from record j of this sequence
KeptRecords == SelectSeq(raw_data, LAMBDA r : KeepRow(raw_data, r))

\* the two hours of the synthetic end, in ticks
TwoHours == Ticks(120)

\* C15 as stated: in every batch, a record whose end is absent or unparsable
\* is flagged is_ongoing, gets end_time = now + 2 hours and has its duration
\* computed from that end; a record with a parsable end is not flagged and
\* keeps its own end_time.
C15_OngoingSynthesized ==
  \A j \in 1..Len(cleaned.rows) :
    LET r == KeptRecords[j]
        row == cleaned.rows[j] IN
    IF ParseTime(r.end) = NullNum
    THEN /\ IsOngoing(raw_data, r)
         /\ row.end_time = Some(now + TwoHours)
         /\ (row.start_time # NullNum /\ Val(row.start_time) <= now + TwoHours)
              => row.duration_minutes = Some(now + TwoHours - Val(row.start_time))
    ELSE /\ ~IsOngoing(raw_data, r)
         /\ row.end_time = ParseTime(r.end)

\* what each strategy finds in a record, taken by itself
Strategy1(r) == IF r.section.shape = "list" THEN r.section.codes ELSE {}
Strategy2(r) == IF r.timespans.shape = "list" THEN r.timespans.codes ELSE {}
Strategy3(title) ==
  IF title \in {"Storing ASD UTR", "Storing tussen ASD en UTR"}
  THEN {"ASD", "UTR"} ELSE {}

\* a record whose station structures have the expected shapes and codes
WellFormed(r) ==
  /\ r.section.shape \in {"none", "list"}
  /\ r.timespans.shape \in {"none", "list"}
  /\ NumCode \notin r.section.codes \cup r.timespans.codes

\* the set of the first strategy that finds anything
FirstNonEmpty(r, title) ==
  IF Strategy1(r) # {} THEN Strategy1(r)
  ELSE IF Strategy2(r) # {} THEN Strategy2(r)
  ELSE Strategy3(title)

SectionFails(r) == r.section.shape = "broken"
TimespansFail(r) == r.timespans.shape \in {"null", "broken"}

\* the codes strategies 1 and 2 put into the set before any of them raises
Collected(r) ==
  IF SectionFails(r) THEN r.section.codes
  ELSE IF TimespansFail(r) THEN Strategy1(r) \cup r.timespans.codes
  ELSE Strategy1(r) \cup Strategy2(r)

Yield1(r) ==
  IF r.section.shape = "list" /\ NumCode \notin r.section.codes
  THEN r.section.codes ELSE {}
Yield2(r) ==
  IF r.timespans.shape = "list" /\ NumCode \notin r.timespans.codes
  THEN r.timespans.codes ELSE {}

\* C17 as stated: when a record of the batch has a malformed station
\* structure, the cleaner still returns a row for every record that has an
\* id, the failing strategy counts as "no stations found" for that record,
\* and the extraction goes on with the other strategies, down to the title
\* tokens or null.
C17_FailureIsLocal ==
  (pc # "transform" /\ \E j \in 1..Len(raw_data) : ~WellFormed(raw_data[j])) =>
    /\ Len(cleaned.rows) = Len(KeptRecords)
    /\ \A j \in 1..Len(cleaned.rows) :
         LET r == KeptRecords[j]
             row == cleaned.rows[j]
             structured == Yield1(r) \cup Yield2(r)
             expected == IF structured # {} \/ row.title = Null
                         THEN structured ELSE Strategy3(row.title) IN
         {row.affected_stations[k] : k \in 1..Len(row.affected_stations)}
           = expected

\* the four known source labels and their canonical labels
KnownLabels ==
  [verstoring |-> "disruption", werkzaamheden |-> "maintenance",
   calamiteit |-> "calamity", storing |-> "disruption"]

\* C18 as stated, with "passes through" read up to letter case and on
\* batches whose station structures are well formed: the cleaner returns a
\* row for every record that has an id, whatever the types are; the type of
\* a row is the canonical label when the lower-cased raw type is a known
\* label, and the raw value otherwise.
C18_OpenTypeMapping ==
  (pc # "transform" /\ \A j \in 1..Len(raw_data) : WellFormed(raw_data[j])) =>
    /\ Len(cleaned.rows) = Len(KeptRecords)
    /\ \A j \in 1..Len(cleaned.rows) :
         LET raw == KeptRecords[j].type
             type == cleaned.rows[j].type IN
         IF IsNA(raw) THEN type = Null
         ELSE IF Lower(raw) \in DOMAIN KnownLabels
         THEN type = KnownLabels[Lower(raw)]
         ELSE Lower(type) = Lower(raw)

\* ------------------------------------------------------------------ C19
\* 2 + 4 + ... + 2^n: the seconds slept after n timeouts in a row
RECURSIVE Backoff(_)
Backoff(n) == IF n = 0 THEN 0 ELSE Backoff(n - 1) + 2 ^ n

\* the fetch has ended without a payload
FetchFailed == fetch.status \in {"returned", "raised"} /\ fetch.last # "ok"

\* C19 as stated: after a timeout with attempts left the fetch has slept
\* 2^attempt seconds and goes on to another attempt; it makes at most
\* max_retries attempts, gives up on a timeout only at the last attempt,
\* does not go on after an HTTP or other error, and a failed fetch ends the
\* run without an exception and without a write.
C19_RetryProtocol ==
  /\ fetch.attempts <= fetch.max_retries
  /\ (fetch.last = "timeout" /\ fetch.attempts < fetch.max_retries) =>
       /\ fetch.status = "running"
       /\ fetch.slept = Backoff(fetch.attempts)
  /\ (fetch.last = "timeout" /\ fetch.status # "running") =>
       fetch.attempts = fetch.max_retries
  /\ fetch.last \in {"http", "other"} => fetch.status = "returned"
  /\ FetchFailed =>
       /\ pc = "done"
       /\ outcome = "returned"
       /\ raw_data = <<>>
       /\ db = snap
       /\ conn = snap

\* ------------------------------------------------------------------ C11
\* both processes took the INSERT branch for the key
BothInserted(key) == \A p \in Procs : key \in writers[p].tried

\* C11: check-then-act under concurrent writers. With the key declared
\* unique no table ever holds two rows of a key; when both processes took
\* the INSERT branch for a key, the runs were not exclusive and the INSERT of
\* one of them raised, so that its row was not written; an INSERT raises
\* only in that case; and when at most one process runs at a time no INSERT
\* raises and no key is inserted by both.
C11_CheckThenAct ==
  /\ Unique(db.norm)
  /\ \A p \in Procs :
       /\ Unique(View(p))
       /\ \A key \in writers[p].lost :
            /\ key \in writers[p].tried
            /\ \E q \in Procs \ {p} : key \in writers[q].tried
       /\ \A q \in Procs \ {p} :
            \A key \in writers[p].tried \cap writers[q].tried :
              /\ ~exclusive
              /\ key \in writers[p].lost \cup writers[q].lost
       /\ exclusive => writers[p].lost = {}

\* C11 witness: both processes have committed; both took the INSERT branch
\* for k1, the INSERT of B raised, and the table holds for k1 the row of A,
\* which differs from the row of B.
C11_Witness ==
  /\ \A p \in Procs : writers[p].pc = "done"
  /\ BothInserted("k1")
  /\ "k1" \in writers["B"].lost
  /\ \E j \in 1..Len(db.norm) :
       /\ db.norm[j].disruption_id = "k1"
       /\ db.norm[j] = InsertRow(writers["A"].rows[1])
       /\ db.norm[j].type # writers["B"].rows[1].type
       /\ writers["B"].rows[1].disruption_id = "k1"

\* ------------------------------------------------------------------ C20
\* an id that is a non-empty string
StringKey(id) == ~Falsy(id) /\ Bindable(id)

\* the keys a table holds
KeysOf(table) == {table[j].disruption_id : j \in 1..Len(table)}

\* C20: raw before normalized. Every normalized row keyed by a non-empty
\* string, committed or written on the open connection, has its key in the
\* committed raw table: the raw loop and its commit come before the first
\* write to the normalized table. When a run over a batch whose ids are all
\* non-empty strings has completed without a single-row store error, both
\* committed tables hold every key of the batch.
C20_RawBeforeNormalized ==
  /\ \A key \in KeysOf(db.norm) \cup KeysOf(conn.norm) :
       StringKey(key) => key \in KeysOf(db.raw)
  /\ pc \in {"idle", "transform", "save_raw"} => conn.norm = db.norm
  /\ (/\ pc = "done"
      /\ outcome = "ok"
      /\ counts.rawWarned + counts.cWarned = 0
      /\ \A j \in 1..Len(raw_data) : StringKey(GetId(raw_data[j]))) =>
       LET batchKeys == {GetId(raw_data[j]) : j \in 1..Len(raw_data)} IN
       /\ batchKeys \subseteq KeysOf(db.raw)
       /\ batchKeys \subseteq KeysOf(db.norm)
       /\ KeysOf(db.raw) \cap batchKeys = KeysOf(db.norm) \cap batchKeys

\* C20 witness: a run crashed after the raw commit and before the
\* normalized one: the committed raw table holds a key of the batch that
\* the committed normalized table does not hold yet.
C20_Witness ==
  /\ pc = "done"
  /\ outcome = "crashed"
  /\ \A j \in 1..Len(raw_data) : StringKey(GetId(raw_data[j]))
  /\ \E j \in 1..Len(raw_data) :
       /\ GetId(raw_data[j]) \in KeysOf(db.raw)
       /\ GetId(raw_data[j]) \notin KeysOf(db.norm)

====
